---- MODULE Spec2Model ----
(***************************************************************************)
(* Model of the single-room chess server of src/app.py: the Socket.IO      *)
(* event handlers (one thread per event, async_mode='threading'), the      *)
(* shared module globals they mutate, and the background clock thread      *)
(* _timer_loop.  The python-chess board is an external collaborator and is *)
(* modelled by the few facts the server asks of it: the side to move, the  *)
(* legal moves, the position after a push and the terminal conditions.     *)
(*                                                                         *)
(* Threads interleave between the steps below.  A handler is one step      *)
(* unless it re-reads shared state it has tested before: on_propose_start  *)
(* (two acquisitions of _pending_lock), on_respond_start (snapshot, claim, *)
(* seating, reset, clear, start), on_move (push, then the load and the     *)
(* store of `+= inc_per_move`) and _timer_loop (loop test, sleep, load and *)
(* store of the decrement under _timer_lock); on_identify acts on the      *)
(* value of _timer_running it read before its seating loop and is two      *)
(* steps (the read, then the seating).  A connection has one message       *)
(* handled at a time; its disconnect may come at any moment.               *)
(*                                                                         *)
(* Not modelled: names and sid_to_player_id (written, and read only to     *)
(* fill message texts), _timer_thread (never read), the HTTP route.        *)
(***************************************************************************)
EXTENDS Integers, FiniteSets, Sequences, TLC

\* ---------------------------------------------------------------- bounds
\* Connections (socket ids); a sid is used by one connection only.
Sids == {"s1", "s2", "s3"}
\* Client supplied persistent identities; "" is a missing playerId.
PlayerIds == {"pA", "pB"}
\* <<baseMins, inc>> payloads a client may send (int() accepts any integer):
\* a zero base with an increment, and a negative base.
TimeControls == {<<0, 1>>, <<-1, 0>>}
\* Connections made in one run.
MaxConns == 2
\* Plies explored on one board before moves are cut off.
MaxPly == 2
\* Clock threads that may exist at the same time.
MaxLoops == 2
\* Clock ticks (decrements) explored in one run.
MaxTicks == 2
\* Client messages (other than connect/disconnect) explored in one run.
MaxMsgs == 3

\* ------------------------------------------------------ program constants
SecsPerMin == 60
InitTime == 120
DefaultBase == 2
DefaultInc == 0

None == "None"
\* sids are opaque and fresh: connections take them in this order
SidOrder == [s \in Sids |-> CASE s = "s1" -> 1 [] s = "s2" -> 2 [] OTHER -> 3]
Colors == {"w", "b"}
Other(c) == IF c = "w" THEN "b" ELSE "w"
Max(a, b) == IF a >= b THEN a ELSE b
Sat(n) == IF n >= 2 THEN 2 ELSE n + 1

\* ------------------------------------------------- the board (python-chess)
\* A position is the number of plies played on it and its terminal status:
\*   "play"  nothing special         "mate"  checkmate (game over)
\*   "stale" a draw that ends the game (stalemate, insufficient material,
\*           fivefold repetition, 75 moves)
\*   "claim" a draw that can only be claimed (50 moves, threefold): the
\*           board is not game over and moves remain legal
StartBoard == [ply |-> 0, st |-> "play"]
MoveKinds == {"quiet", "mate", "stale", "claim"}
\* What a client may send: a move of one of the kinds, or "bad" (malformed
\* coordinates or a move that is not legal in the position).
MoveInputs == MoveKinds \cup {"bad"}
get_turn(b) == IF b.ply % 2 = 0 THEN "w" ELSE "b"
is_game_over(b) == b.st \in {"mate", "stale"}
is_checkmate(b) == b.st = "mate"
is_draw(b) == b.st \in {"stale", "claim"}
legal_moves(b) == IF is_game_over(b) THEN {} ELSE MoveKinds
push(b, m) ==
    [ply |-> b.ply + 1,
     st |-> CASE m = "mate" -> "mate"
              [] m = "stale" -> "stale"
              [] m = "claim" -> "claim"
              [] OTHER -> "play"]

\* ------------------------------------------------------------------ state
VARIABLES
    connected_sids,     \* set of live sids
    gone,               \* sids whose connection has ended (never reused)
    players,            \* color -> sid or None
    player_ids,         \* color -> playerId or None
    board,
    white_time,
    black_time,
    inc_per_move,
    _timer_running,
    loops,              \* the clock threads: slot -> [pc, turn, ld]
    pending_start,      \* the pending offer, or NoPending
    h,                  \* sid -> the event handler thread running for it
    out,                \* messages emitted by the latest step
    obs,                \* history of the match since the last reset_game
    resp,               \* outcomes of respondStart since the last offer
    ticks,              \* clock decrements so far
    msgs                \* client messages so far

vars == <<connected_sids, gone, players, player_ids, board, white_time,
          black_time, inc_per_move, _timer_running, loops, pending_start,
          h, out, obs, resp, ticks, msgs>>

connVars == <<connected_sids, gone>>
seatVars == <<players, player_ids>>
gameVars == <<board, white_time, black_time, inc_per_move>>
clockVars == <<_timer_running, loops>>

NoPending == [set |-> FALSE, from |-> None, base |-> 0, inc |-> 0, opponent |-> None]
Offer(sid, base, inc) ==
    [set |-> TRUE, from |-> sid, base |-> base, inc |-> inc, opponent |-> None]

HIdle ==
    [pc |-> "idle", p |-> None, base |-> 0, inc |-> 0, turn |-> "-", t |-> 0,
     pid |-> "", halted |-> FALSE]
NoLoop == [pc |-> "none", turn |-> "-", ld |-> 0]
LoopSlots == 1..MaxLoops

\* -------------------------------------------------------------- messages
Msg(ev, to, v, w) == [ev |-> ev, to |-> to, v |-> v, w |-> w]
StateMsg(extra) == Msg("state", "all", extra, "-")
ErrorMsg(sid, m) == Msg("errorMsg", sid, m, "-")
StatusMsg(sid, st) == Msg("startStatus", sid, st, "-")
Overlay(reason, winner) == Msg("overlay", "all", reason, winner)

\* ----------------------------------------------------- history variables
\*   timeouts  time-out overlays since the last reset_game (0, 1, 2 = many)
\*   terminal  an overlay has ended the match since the last reset_game
\*   rb        the base of the last reset_game, while neither start_timer
\*             nor a move has followed it
\*   dc        a seat occupant's disconnect ended the match and no client
\*             message has been handled since; dticks, dovl count the
\*             clock's decrements and the termination overlays since then
\*   started   start_timer() has been called since the last reset_game
\*   left      playerId -> the seat its connection held when it
\*             disconnected, until that playerId identifies again
\*   mvOn      the latest move (of side mvc) was applied since the last
\*             reset_game and no other move was in flight with it; mvDone:
\*             it has stored its increment; mvx: the time of mvc before the
\*             move, plus the increment once stored, minus one for each
\*             tick stored on mvc since
NoneLeft == [p \in PlayerIds |-> None]
ObsInit ==
    [timeouts |-> 0, terminal |-> FALSE, rbOn |-> FALSE, rb |-> 0,
     dc |-> FALSE, dticks |-> 0, dovl |-> 0, started |-> FALSE,
     left |-> NoneLeft, mvOn |-> FALSE, mvDone |-> FALSE, mvc |-> "-", mvx |-> 0]
\* any handler step closes the disconnect window
ObsHandled(o) == [o EXCEPT !.dc = FALSE, !.dticks = 0, !.dovl = 0]
ObsReset(o, base) == [ObsInit EXCEPT !.rbOn = TRUE, !.rb = base, !.left = o.left]
ObsClockStarted(o) == [o EXCEPT !.started = TRUE]
\* a seat occupant leaves: remember the seat of the playerId bound to it
ObsLeft(o, pl, ids, sid) ==
    [o EXCEPT !.left = [p \in PlayerIds |->
                          IF pl["w"] = sid /\ ids["w"] = p THEN "w"
                          ELSE IF pl["b"] = sid /\ ids["b"] = p THEN "b"
                          ELSE o.left[p]]]
\* a playerId identifies again
ObsBack(o, pid) == [o EXCEPT !.left = [o.left EXCEPT ![pid] = None]]
\* side c, with t on its clock, has a move applied
ObsMove(o, c, t, inflight) ==
    IF inflight
    THEN [o EXCEPT !.mvOn = FALSE, !.mvDone = FALSE, !.mvc = "-", !.mvx = 0]
    ELSE [o EXCEPT !.mvOn = TRUE, !.mvDone = FALSE, !.mvc = c, !.mvx = t]
\* the handler of the move stores the increment on the clock of side c
ObsCredit(o, c, inc) ==
    IF o.mvOn /\ o.mvc = c /\ ~o.mvDone
    THEN [o EXCEPT !.mvDone = TRUE, !.mvx = @ + inc]
    ELSE o
\* the clock thread stores a tick on the clock of side c
ObsTick(o, c) ==
    IF o.mvOn /\ o.mvc = c THEN [o EXCEPT !.mvx = Max(0, @ - 1)] ELSE o
ObsStartOrMove(o) == [o EXCEPT !.rbOn = FALSE, !.rb = 0]
ObsTerminal(o) == [o EXCEPT !.terminal = TRUE]
RespInit == [acc |-> 0, full |-> 0, none |-> 0, starts |-> 0]

\* ------------------------------------------------------------------- Init
\* The connection phase the server may have been through before the run:
\* nobody connected; s1 connected; s1 identified (white); s1 and s2 both
\* identified (white, black); s1 identified and s2 a spectator.
NoSeats == [c \in Colors |-> None]
Lobbies ==
    {[c |-> {}, pl |-> NoSeats, ids |-> NoSeats],
     [c |-> {"s1"}, pl |-> NoSeats, ids |-> NoSeats],
     [c |-> {"s1"}, pl |-> [NoSeats EXCEPT !["w"] = "s1"],
      ids |-> [NoSeats EXCEPT !["w"] = "pA"]],
     [c |-> {"s1", "s2"}, pl |-> [NoSeats EXCEPT !["w"] = "s1", !["b"] = "s2"],
      ids |-> [NoSeats EXCEPT !["w"] = "pA", !["b"] = "pB"]],
     [c |-> {"s1", "s2"}, pl |-> [NoSeats EXCEPT !["w"] = "s1"],
      ids |-> [NoSeats EXCEPT !["w"] = "pA"]]}

\* The module globals as lines 19-32 leave them
InitGlobals ==
    /\ gone = {}
    /\ board = StartBoard
    /\ white_time = InitTime
    /\ black_time = InitTime
    /\ inc_per_move = 0
    /\ _timer_running = FALSE
    /\ loops = [i \in LoopSlots |-> NoLoop]
    /\ out = {}
    /\ obs = ObsInit
    /\ resp = RespInit
    /\ ticks = 0
    /\ msgs = 0

\* The server in its lobby: the globals untouched, the clients of one lobby
\* connected and seated by on_connect and on_identify.
Init ==
    /\ InitGlobals
    /\ \E l \in Lobbies :
        /\ connected_sids = l.c
        /\ players = l.pl
        /\ player_ids = l.ids
    /\ pending_start = NoPending
    /\ h = [s \in Sids |-> HIdle]

\* ----------------------------------------------------- start/stop the clock
FreeSlots == {i \in LoopSlots : loops[i].pc = "none"}
\* start_timer() can run: a thread slot is free when it has to create one
CanStartTimer == _timer_running \/ FreeSlots # {}
\* start_timer(): no-op when the flag is set, else set it and spawn a thread
start_timer ==
    IF _timer_running
    THEN UNCHANGED clockVars
    ELSE /\ _timer_running' = TRUE
         /\ loops' = [loops EXCEPT ![CHOOSE i \in FreeSlots : \A j \in FreeSlots : i <= j] =
                          [pc |-> "while", turn |-> "-", ld |-> 0]]
\* stop_timer(): clear the flag; the thread notices at its next loop test
stop_timer ==
    /\ _timer_running' = FALSE
    /\ UNCHANGED loops

\* reset_game(base_mins, inc): stop_timer, fresh board, both clocks base*60
reset_game(base, inc) ==
    /\ stop_timer
    /\ board' = StartBoard
    /\ white_time' = base * SecsPerMin
    /\ black_time' = base * SecsPerMin
    /\ inc_per_move' = inc

\* ---------------------------------------------------------- the clock thread
\* while _timer_running:
LoopWhile(i) ==
    /\ loops[i].pc = "while"
    /\ loops' = [loops EXCEPT ![i] = IF _timer_running
                                      THEN [NoLoop EXCEPT !.pc = "sleep"]
                                      ELSE NoLoop]
    /\ out' = {}
    /\ UNCHANGED <<connVars, seatVars, gameVars, _timer_running, pending_start,
                   h, obs, resp, ticks, msgs>>

\* time.sleep(1) is over: if board.is_game_over(): _timer_running = False; break
LoopWake(i) ==
    /\ loops[i].pc = "sleep"
    /\ IF is_game_over(board)
       THEN /\ _timer_running' = FALSE
            /\ loops' = [loops EXCEPT ![i] = NoLoop]
       ELSE /\ loops' = [loops EXCEPT ![i].pc = "lock"]
            /\ UNCHANGED _timer_running
    /\ out' = {}
    /\ UNCHANGED <<connVars, seatVars, gameVars, pending_start, h, obs, resp,
                   ticks, msgs>>

\* with _timer_lock: if get_turn() == 'w': load white_time (else black_time)
LoopLoad(i) ==
    /\ loops[i].pc = "lock"
    /\ \A j \in LoopSlots : loops[j].pc # "store"
    /\ ticks < MaxTicks
    /\ loops' = [loops EXCEPT ![i] =
                    [pc |-> "store", turn |-> get_turn(board),
                     ld |-> IF get_turn(board) = "w" THEN white_time ELSE black_time]]
    /\ out' = {}
    /\ UNCHANGED <<connVars, seatVars, gameVars, _timer_running, pending_start,
                   h, obs, resp, ticks, msgs>>

\* (mutant of Tick: the tick stores the time it loaded)
Tick_NoDecrement(t) == Max(0, t)
\* the value max(0, time - 1) the tick stores
Tick(t) == Max(0, t - 1)

\* store max(0, time - 1); on zero emit the time-out overlay and clear the
\* flag; release the lock; broadcast_state()
LoopStore(i) ==
    /\ loops[i].pc = "store"
    /\ LET c == loops[i].turn
           v == Tick(loops[i].ld)
       IN /\ IF c = "w"
             THEN white_time' = v /\ UNCHANGED black_time
             ELSE black_time' = v /\ UNCHANGED white_time
          /\ _timer_running' = IF v = 0 THEN FALSE ELSE _timer_running
          /\ out' = IF v = 0
                    THEN {Overlay("time", Other(c)), StateMsg("")}
                    ELSE {StateMsg("")}
          /\ obs' = IF v = 0
                    THEN [ObsTick(obs, c) EXCEPT
                              !.timeouts = Sat(@), !.terminal = TRUE,
                              !.dticks = IF obs.dc THEN Sat(@) ELSE 0,
                              !.dovl = IF obs.dc THEN Sat(@) ELSE 0]
                    ELSE [ObsTick(obs, c) EXCEPT
                              !.dticks = IF obs.dc THEN Sat(@) ELSE 0]
    /\ loops' = [loops EXCEPT ![i] = [NoLoop EXCEPT !.pc = "while"]]
    /\ ticks' = ticks + 1
    /\ UNCHANGED <<connVars, seatVars, board, inc_per_move, pending_start, h,
                   resp, msgs>>

\* one step of clock thread i
LoopStep(i) == LoopWhile(i) \/ LoopWake(i) \/ LoopLoad(i) \/ LoopStore(i)
TimerLoop == \E i \in LoopSlots : LoopStep(i)

\* --------------------------------------------------------- event handlers
\* A client message of a live connection whose previous handler returned.
Begin(sid) ==
    /\ sid \in connected_sids
    /\ h[sid].pc = "idle"
    /\ msgs < MaxMsgs
    /\ msgs' = msgs + 1

\* the color emit_assign_to_sid reports for sid under the seating pl
AssignColor(pl, sid) ==
    IF pl["w"] = sid THEN "w" ELSE IF pl["b"] = sid THEN "b" ELSE "spectator"

\* on_connect: register the sid, send it its assignment and a pending offer
on_connect(sid) ==
    /\ sid \notin connected_sids \cup gone
    /\ Cardinality(connected_sids \cup gone) < MaxConns
    /\ \A o \in Sids \ (connected_sids \cup gone) : SidOrder[sid] <= SidOrder[o]
    /\ connected_sids' = connected_sids \cup {sid}
    /\ out' = {Msg("assign", sid, AssignColor(players, sid), "-")}
              \cup IF pending_start.set /\ pending_start.from # sid
                   THEN {Msg("startOffer", sid, pending_start.from, "-")}
                   ELSE {}
    /\ obs' = ObsHandled(obs)
    /\ UNCHANGED <<gone, seatVars, gameVars, clockVars, pending_start, h, resp,
                   ticks, msgs>>

\* on_identify, lines 170-180: return on a missing playerId, else read
\* _timer_running (`if not _timer_running:`)
on_identify(sid, pid) ==
    /\ Begin(sid)
    /\ h' = IF pid = "" THEN h
            ELSE [h EXCEPT ![sid] = [HIdle EXCEPT !.pc = "id_seat", !.pid = pid,
                                                  !.halted = ~_timer_running]]
    /\ out' = {}
    /\ obs' = ObsHandled(obs)
    /\ UNCHANGED <<connVars, seatVars, gameVars, clockVars, pending_start, resp, ticks>>

\* the color whose remembered playerId is pid, looked up only when the clock
\* was found halted
RestoredColor(pid, halted) ==
    IF ~halted THEN None
    ELSE IF player_ids["w"] = pid THEN "w"
    ELSE IF player_ids["b"] = pid THEN "b"
    ELSE None

\* the seating on_identify leaves: the seat restored for pid, else the first
\* empty seat, else the seating as it is
SeatIdentify(sid, pid, halted) ==
    LET rc == RestoredColor(pid, halted)
        p1 == IF rc # None THEN [players EXCEPT ![rc] = sid] ELSE players
        take == IF rc # None THEN None
                ELSE IF p1["w"] = None THEN "w"
                ELSE IF p1["b"] = None THEN "b"
                ELSE None
    IN [pl |-> IF take # None THEN [p1 EXCEPT ![take] = sid] ELSE p1,
        ids |-> IF take # None THEN [player_ids EXCEPT ![take] = pid] ELSE player_ids]

\* on_identify, lines 181-212: the restoring loop, the assignment of an
\* empty seat, the assign message and the state broadcast
IdentifySeat(sid) ==
    /\ h[sid].pc = "id_seat"
    /\ LET st == SeatIdentify(sid, h[sid].pid, h[sid].halted)
       IN /\ players' = st.pl
          /\ player_ids' = st.ids
          /\ out' = {Msg("assign", sid, AssignColor(st.pl, sid), "-"),
                     StateMsg("joined")}
    /\ h' = [h EXCEPT ![sid] = HIdle]
    /\ obs' = ObsBack(ObsHandled(obs), h[sid].pid)
    /\ UNCHANGED <<connVars, gameVars, clockVars, pending_start, resp, ticks, msgs>>

\* the seat of sid, or None
SeatOf(sid) ==
    IF players["w"] = sid THEN "w" ELSE IF players["b"] = sid THEN "b" ELSE None

\* on_disconnect: a seat occupant leaving while the clock runs ends the match;
\* the seats and the offer of the sid are cleared
on_disconnect(sid) ==
    /\ sid \in connected_sids
    /\ connected_sids' = connected_sids \ {sid}
    /\ gone' = gone \cup {sid}
    /\ LET dc == SeatOf(sid)
           ended == dc # None /\ _timer_running
       IN /\ IF ended THEN stop_timer ELSE UNCHANGED clockVars
          /\ out' = (IF ended THEN {Overlay("disconnect", Other(dc))} ELSE {})
                    \cup {StateMsg("")}
          /\ obs' = IF ended
                    THEN [ObsLeft(ObsHandled(obs), players, player_ids, sid)
                              EXCEPT !.terminal = TRUE, !.dc = TRUE, !.dovl = 1]
                    ELSE ObsLeft(ObsHandled(obs), players, player_ids, sid)
    /\ players' = [c \in Colors |-> IF players[c] = sid THEN None ELSE players[c]]
    /\ player_ids' = [c \in Colors |-> IF players[c] = sid THEN None ELSE player_ids[c]]
    /\ pending_start' = IF pending_start.set /\ pending_start.from = sid
                        THEN NoPending ELSE pending_start
    /\ UNCHANGED <<gameVars, h, resp, ticks, msgs>>

\* on_set_time_control: reset_game(base, inc)
on_set_time_control(sid, base, inc) ==
    /\ Begin(sid)
    /\ reset_game(base, inc)
    /\ out' = {StateMsg("reset")}
    /\ obs' = ObsReset(obs, base)
    /\ UNCHANGED <<connVars, seatVars, pending_start, h, resp, ticks>>

\* on_start (legacy): only with both seats taken and no offer pending
on_start(sid) ==
    /\ Begin(sid)
    /\ IF players["w"] # None /\ players["b"] # None /\ ~pending_start.set
       THEN /\ CanStartTimer
            /\ start_timer
            /\ out' = {StateMsg("started")}
            /\ obs' = ObsClockStarted(ObsStartOrMove(ObsHandled(obs)))
       ELSE /\ out' = {}
            /\ obs' = ObsHandled(obs)
            /\ UNCHANGED clockVars
    /\ UNCHANGED <<connVars, seatVars, gameVars, pending_start, h, resp, ticks>>

\* (mutant of MoveVerdict: the sender's seat is not compared with the turn)
MoveVerdict_NoTurnCheck(sid, mv) ==
    IF mv \notin legal_moves(board) THEN "Illegal move" ELSE "ok"
\* on_move, lines 288-308: the turn check and the legality check
MoveVerdict(sid, mv) ==
    IF players[get_turn(board)] # sid THEN "Not your turn"
    ELSE IF mv \notin legal_moves(board) THEN "Illegal move"
    ELSE "ok"

\* on_move, lines 287-310: reject with an error, or board.push(move)
on_move(sid, mv) ==
    /\ Begin(sid)
    /\ IF MoveVerdict(sid, mv) # "ok"
       THEN /\ out' = {ErrorMsg(sid, MoveVerdict(sid, mv))}
            /\ UNCHANGED <<board, h>>
            /\ obs' = ObsHandled(obs)
       ELSE /\ board.ply < MaxPly
            /\ board' = push(board, mv)
            /\ h' = [h EXCEPT ![sid] = [HIdle EXCEPT !.pc = "mv_load",
                                                      !.turn = get_turn(board)]]
            /\ out' = {}
            /\ obs' = ObsMove(ObsStartOrMove(ObsHandled(obs)), get_turn(board),
                              IF get_turn(board) = "w" THEN white_time ELSE black_time,
                              \E o \in Sids : h[o].pc \in {"mv_load", "mv_store"})
    /\ UNCHANGED <<connVars, seatVars, white_time, black_time, inc_per_move,
                   clockVars, pending_start, resp, ticks>>

\* on_move, lines 313-316: load the mover's clock for `+= inc_per_move`
MoveLoad(sid) ==
    /\ h[sid].pc = "mv_load"
    /\ h' = [h EXCEPT ![sid].pc = "mv_store",
                      ![sid].t = IF h[sid].turn = "w" THEN white_time ELSE black_time]
    /\ out' = {}
    /\ obs' = ObsHandled(obs)
    /\ UNCHANGED <<connVars, seatVars, gameVars, clockVars, pending_start, resp,
                   ticks, msgs>>

\* on_move, lines 313-340: store clock + inc, broadcast, then end the match
\* on checkmate or a draw, else start_timer()
MoveStore(sid) ==
    /\ h[sid].pc = "mv_store"
    /\ IF h[sid].turn = "w"
       THEN white_time' = h[sid].t + inc_per_move /\ UNCHANGED black_time
       ELSE black_time' = h[sid].t + inc_per_move /\ UNCHANGED white_time
    /\ IF is_checkmate(board)
       THEN /\ stop_timer
            /\ out' = {StateMsg("lastMove"), Overlay("checkmate", Other(get_turn(board)))}
            /\ obs' = ObsTerminal(ObsCredit(ObsHandled(obs), h[sid].turn, inc_per_move))
       ELSE IF is_game_over(board) \/ is_draw(board)
       THEN /\ stop_timer
            /\ out' = {StateMsg("lastMove"), Overlay("draw", "-")}
            /\ obs' = ObsTerminal(ObsCredit(ObsHandled(obs), h[sid].turn, inc_per_move))
       ELSE /\ CanStartTimer
            /\ start_timer
            /\ out' = {StateMsg("lastMove")}
            /\ obs' = ObsClockStarted(ObsStartOrMove(
                           ObsCredit(ObsHandled(obs), h[sid].turn, inc_per_move)))
    /\ h' = [h EXCEPT ![sid] = HIdle]
    /\ UNCHANGED <<connVars, seatVars, board, inc_per_move, pending_start, resp,
                   ticks, msgs>>

\* ------------------------------------------------------- the start handshake
\* on_propose_start, lines 363-376: refuse while the clock runs or an offer
\* is pending (the check under _pending_lock)
on_propose_start(sid, base, inc) ==
    /\ Begin(sid)
    /\ IF _timer_running
       THEN /\ out' = {StatusMsg(sid, "game_running")}
            /\ UNCHANGED h
       ELSE IF pending_start.set
       THEN /\ out' = {StatusMsg(sid, "waiting")}
            /\ UNCHANGED h
       ELSE /\ out' = {}
            /\ h' = [h EXCEPT ![sid] = [HIdle EXCEPT !.pc = "prop_set", !.base = base,
                                                      !.inc = inc]]
    /\ obs' = ObsHandled(obs)
    /\ UNCHANGED <<connVars, seatVars, gameVars, clockVars, pending_start, resp, ticks>>

\* on_propose_start, lines 378-392: create the offer (a second acquisition of
\* _pending_lock), acknowledge 'waiting', send the offer to the others
ProposeSet(sid) ==
    /\ h[sid].pc = "prop_set"
    /\ pending_start' = Offer(sid, h[sid].base, h[sid].inc)
    /\ out' = {StatusMsg(sid, "waiting"), Msg("startOffer", "others", sid, "-")}
    /\ h' = [h EXCEPT ![sid] = HIdle]
    /\ obs' = ObsHandled(obs)
    /\ resp' = RespInit
    /\ UNCHANGED <<connVars, seatVars, gameVars, clockVars, ticks, msgs>>

\* on_cancel_start: only the proposer withdraws the offer
on_cancel_start(sid) ==
    /\ Begin(sid)
    /\ IF pending_start.set /\ pending_start.from = sid
       THEN /\ pending_start' = NoPending
            /\ out' = {Msg("startStatus", "all", "cancelled", "-")}
       ELSE /\ out' = {}
            /\ UNCHANGED pending_start
    /\ obs' = ObsHandled(obs)
    /\ UNCHANGED <<connVars, seatVars, gameVars, clockVars, h, resp, ticks>>

\* on_respond_start, lines 409-423: snapshot the offer; no offer or a
\* rejection ends the handler
RespondRead(sid, accept) ==
    /\ IF ~pending_start.set
       THEN /\ out' = {StatusMsg(sid, "no_pending")}
            /\ h' = [h EXCEPT ![sid] = HIdle]
            /\ resp' = IF accept THEN [resp EXCEPT !.none = Sat(@)] ELSE resp
       ELSE IF ~accept
       THEN /\ out' = {StatusMsg(pending_start.from, "rejected"),
                       StatusMsg(sid, "rejected")}
            /\ h' = [h EXCEPT ![sid] = HIdle]
            /\ UNCHANGED resp
       ELSE /\ out' = {}
            /\ h' = [h EXCEPT ![sid] = [HIdle EXCEPT !.pc = "resp_claim",
                                                      !.p = pending_start.from]]
            /\ UNCHANGED resp
    /\ obs' = ObsHandled(obs)
    /\ UNCHANGED <<connVars, seatVars, gameVars, clockVars, pending_start, ticks>>

on_respond_start(sid, accept) ==
    /\ Begin(sid)
    /\ RespondRead(sid, accept)

\* (mutant of MayClaim: the slot is taken without looking whether it is empty)
MayClaim_Unchecked(ps) == ps.set
\* whether the accepter may take the opponent slot of the offer ps
MayClaim(ps) == ps.set /\ ps.opponent = None

\* on_respond_start, lines 426-433 and 476-479: under _pending_lock take the
\* opponent slot if it is still empty, else report slots_full
RespondClaim(sid) ==
    /\ h[sid].pc = "resp_claim"
    /\ IF MayClaim(pending_start)
       THEN /\ pending_start' = [pending_start EXCEPT !.opponent = sid]
            /\ h' = [h EXCEPT ![sid].pc = "resp_seat",
                              ![sid].base = pending_start.base,
                              ![sid].inc = pending_start.inc]
            /\ out' = {}
            /\ UNCHANGED resp
       ELSE /\ out' = {StatusMsg(sid, "slots_full")}
            /\ h' = [h EXCEPT ![sid] = HIdle]
            /\ resp' = [resp EXCEPT !.full = Sat(@)]
            /\ UNCHANGED pending_start
    /\ obs' = ObsHandled(obs)
    /\ UNCHANGED <<connVars, seatVars, gameVars, clockVars, ticks, msgs>>

\* the seating after an accept: the proposer keeps its seat (white if it has
\* none), the accepter gets the other one
SeatAccept(pl, proposer, sid) ==
    IF pl["w"] = proposer THEN [pl EXCEPT !["b"] = sid]
    ELSE IF pl["b"] = proposer THEN [pl EXCEPT !["w"] = sid]
    ELSE [pl EXCEPT !["w"] = proposer, !["b"] = sid]

\* on_respond_start, lines 435-461: seat both, send the assignments
RespondSeat(sid) ==
    /\ h[sid].pc = "resp_seat"
    /\ players' = SeatAccept(players, h[sid].p, sid)
    /\ h' = [h EXCEPT ![sid].pc = "resp_reset"]
    /\ out' = {Msg("assign", "all", "", "-")}
    /\ obs' = ObsHandled(obs)
    /\ UNCHANGED <<connVars, player_ids, gameVars, clockVars, pending_start, resp,
                   ticks, msgs>>

\* on_respond_start, line 465: reset_game(base, inc)
RespondReset(sid) ==
    /\ h[sid].pc = "resp_reset"
    /\ reset_game(h[sid].base, h[sid].inc)
    /\ h' = [h EXCEPT ![sid].pc = "resp_clear"]
    /\ out' = {StateMsg("reset")}
    /\ obs' = ObsReset(obs, h[sid].base)
    /\ UNCHANGED <<connVars, seatVars, pending_start, resp, ticks, msgs>>

\* on_respond_start, lines 466-470: drop the offer, acknowledge 'accepted'
RespondClear(sid) ==
    /\ h[sid].pc = "resp_clear"
    /\ pending_start' = NoPending
    /\ h' = [h EXCEPT ![sid].pc = "resp_start"]
    /\ out' = {StatusMsg(h[sid].p, "accepted"), StatusMsg(sid, "accepted")}
    /\ resp' = [resp EXCEPT !.acc = Sat(@)]
    /\ obs' = ObsHandled(obs)
    /\ UNCHANGED <<connVars, seatVars, gameVars, clockVars, ticks, msgs>>

\* on_respond_start, lines 472-475: start_timer(), broadcast started
RespondStartTimer(sid) ==
    /\ h[sid].pc = "resp_start"
    /\ CanStartTimer
    /\ start_timer
    /\ h' = [h EXCEPT ![sid] = HIdle]
    /\ out' = {StateMsg("started"), Msg("assign", "all", "", "-")}
    /\ resp' = [resp EXCEPT !.starts = Sat(@)]
    /\ obs' = ObsClockStarted(ObsStartOrMove(ObsHandled(obs)))
    /\ UNCHANGED <<connVars, seatVars, gameVars, pending_start, ticks, msgs>>

\* --------------------------------------------------------- forfeit and reset
\* on_forfeit: stop_timer() first, then an overlay for a seat occupant or an
\* error for a spectator, then broadcast_state({'over': True})
on_forfeit(sid) ==
    /\ Begin(sid)
    /\ stop_timer
    /\ IF SeatOf(sid) # None
       THEN /\ out' = {Overlay("forfeit", IF players["w"] = sid THEN "b" ELSE "w"),
                       StateMsg("over")}
            /\ obs' = ObsTerminal(ObsHandled(obs))
       ELSE /\ out' = {ErrorMsg(sid, "Spectators cannot forfeit"), StateMsg("over")}
            /\ obs' = ObsHandled(obs)
    /\ UNCHANGED <<connVars, seatVars, gameVars, pending_start, h, resp, ticks>>

\* on_hard_reset: stop the clock, drop the offer, reset_game(2, 0)
on_hard_reset(sid) ==
    /\ Begin(sid)
    /\ pending_start' = NoPending
    /\ reset_game(DefaultBase, DefaultInc)
    /\ out' = {StateMsg("reset"), Msg("assign", "all", "", "-")}
    /\ obs' = ObsReset(obs, DefaultBase)
    /\ UNCHANGED <<connVars, seatVars, h, resp, ticks>>

\* ---------------------------------------------------------- specification
Handlers ==
    \E sid \in Sids :
        \/ on_connect(sid)
        \/ on_disconnect(sid)
        \/ \E pid \in PlayerIds \cup {""} : on_identify(sid, pid)
        \/ IdentifySeat(sid)
        \/ \E tc \in TimeControls : on_set_time_control(sid, tc[1], tc[2])
        \/ on_start(sid)
        \/ \E mv \in MoveInputs : on_move(sid, mv)
        \/ MoveLoad(sid)
        \/ MoveStore(sid)
        \/ \E tc \in TimeControls : on_propose_start(sid, tc[1], tc[2])
        \/ ProposeSet(sid)
        \/ on_cancel_start(sid)
        \/ \E accept \in BOOLEAN : on_respond_start(sid, accept)
        \/ RespondClaim(sid)
        \/ RespondSeat(sid)
        \/ RespondReset(sid)
        \/ RespondClear(sid)
        \/ RespondStartTimer(sid)
        \/ on_forfeit(sid)
        \/ on_hard_reset(sid)

Next == Handlers \/ TimerLoop

Spec == Init /\ [][Next]_vars

\* ------------------------------------------- two accepters of one offer
\* respondStart(accept=true) of a connection whose message has arrived
RespondBegin(sid) ==
    /\ h[sid].pc = "resp_begin"
    /\ RespondRead(sid, TRUE)
    /\ UNCHANGED msgs

\* Three live connections in a lobby (nobody seated; s1 white; s1 white and
\* s2 black), an offer of any of them pending, and the respondStart
\* (accept=true) messages of two distinct connections delivered.
RespondLobbies ==
    {NoSeats, [NoSeats EXCEPT !["w"] = "s1"],
     [NoSeats EXCEPT !["w"] = "s1", !["b"] = "s2"]}
InitRespond ==
    /\ InitGlobals
    /\ connected_sids = Sids
    /\ players \in RespondLobbies
    /\ player_ids = [c \in Colors |-> IF players[c] = "s1" THEN "pA"
                                      ELSE IF players[c] = "s2" THEN "pB" ELSE None]
    /\ \E from \in Sids, tc \in TimeControls :
           pending_start = Offer(from, tc[1], tc[2])
    /\ \E a, b \in Sids :
        /\ a # b
        /\ h = [s \in Sids |-> IF s \in {a, b}
                               THEN [HIdle EXCEPT !.pc = "resp_begin"] ELSE HIdle]

NextRespond ==
    \/ \E sid \in Sids :
        \/ RespondBegin(sid)
        \/ RespondClaim(sid)
        \/ RespondSeat(sid)
        \/ RespondReset(sid)
        \/ RespondClear(sid)
        \/ RespondStartTimer(sid)
    \/ TimerLoop

SpecRespond == InitRespond /\ [][NextRespond]_vars

\* ----------------------------------------- reconnection in the lobby
\* Three live connections in a lobby (nobody seated; s1 white as pA; s1
\* white as pA and s2 black as pB), no offer, no match: the connections
\* identify and disconnect.
InitSeats ==
    /\ InitGlobals
    /\ connected_sids = Sids
    /\ players \in RespondLobbies
    /\ player_ids = [c \in Colors |-> IF players[c] = "s1" THEN "pA"
                                      ELSE IF players[c] = "s2" THEN "pB" ELSE None]
    /\ pending_start = NoPending
    /\ h = [s \in Sids |-> HIdle]

NextSeats ==
    \E sid \in Sids :
        \/ \E pid \in PlayerIds \cup {""} : on_identify(sid, pid)
        \/ IdentifySeat(sid)
        \/ on_disconnect(sid)

SpecSeats == InitSeats /\ [][NextSeats]_vars

\* ------------------------------------------ the clock left to itself
\* A match under way with the clock running and no client message to come:
\* both seats occupied, the starting position or the position after one
\* move of any kind, a few seconds left on each clock, the thread spawned by
\* start_timer() at its loop test and possibly a thread of an earlier start
\* still in its sleep.  Every clock thread that can take a step eventually
\* takes one (threads are scheduled, time.sleep(1) returns).
ClockBoards == {StartBoard} \cup {push(StartBoard, m) : m \in MoveKinds}
InitClock ==
    /\ connected_sids = {"s1", "s2"}
    /\ gone = {}
    /\ players = [NoSeats EXCEPT !["w"] = "s1", !["b"] = "s2"]
    /\ player_ids = [NoSeats EXCEPT !["w"] = "pA", !["b"] = "pB"]
    /\ board \in ClockBoards
    /\ white_time \in 0..MaxTicks
    /\ black_time \in 0..MaxTicks
    /\ inc_per_move = 0
    /\ _timer_running = TRUE
    /\ \E stale \in {"none", "sleep"} :
           loops = [i \in LoopSlots |->
                       IF i = 1 THEN [NoLoop EXCEPT !.pc = "while"]
                       ELSE IF i = 2 THEN [NoLoop EXCEPT !.pc = stale]
                       ELSE NoLoop]
    /\ pending_start = NoPending
    /\ h = [s \in Sids |-> HIdle]
    /\ out = {}
    /\ obs = ObsClockStarted(ObsInit)
    /\ resp = RespInit
    /\ ticks = 0
    /\ msgs = 0

NextClock == \E i \in LoopSlots : LoopStep(i)

SpecClock ==
    /\ InitClock
    /\ [][NextClock]_vars
    /\ \A i \in LoopSlots : WF_vars(LoopStep(i))

\* ------------------------------------------------------------- properties
\* a clock thread that will decrement a clock again
Ticking(i) ==
    \/ loops[i].pc \in {"sleep", "lock", "store"}
    \/ loops[i].pc = "while" /\ _timer_running
Emits(o, ev, v) == \E m \in o : m.ev = ev /\ m.v = v

\* both respondStart handlers have returned
RespondDone == \A s \in Sids : h[s].pc = "idle"

\* C1 (as claimed): of two accepters of one offer exactly one is accepted,
\* the match is started exactly once, and the other one is told slots_full.
C1_OneAcceptedOneSlotsFull ==
    RespondDone => (resp.acc = 1 /\ resp.starts = 1 /\ resp.full = 1)

\* C1 (amended): of two accepters of one offer at most one is ever accepted
\* and the match is started at most once; when both have returned, exactly
\* one is accepted, the match is started exactly once, and the other one is
\* told slots_full, or no_pending if it looked only after the offer was
\* dropped.
C1_OneAcceptedOtherRefused ==
    /\ resp.acc <= 1
    /\ resp.starts <= 1
    /\ RespondDone => (resp.acc = 1 /\ resp.starts = 1 /\ resp.full + resp.none = 1)
\* both have returned and the loser raced the winner: it was told slots_full
C1_Witness ==
    RespondDone /\ resp.acc = 1 /\ resp.starts = 1 /\ resp.full = 1

\* no remaining time is negative (the counterexamples of C5 and C7 are taken
\* among the states where C4 holds)
ClocksNonNegative == white_time >= 0 /\ black_time >= 0

\* C2: an offer that is pending is never replaced or altered by a
\* proposeStart: while an offer stays pending its proposer, base time and
\* increment stay the same.
C2_OfferNeverReplaced ==
    [][(pending_start.set /\ pending_start'.set) =>
          /\ pending_start'.from = pending_start.from
          /\ pending_start'.base = pending_start.base
          /\ pending_start'.inc = pending_start.inc]_vars

\* C3: at most one clock loop is alive and ticking at any time.
C3_SingleClockLoop == Cardinality({i \in LoopSlots : Ticking(i)}) <= 1

\* C4: the remaining time of each seat is never negative.
C4_TimesNonNegative == \A t \in {white_time, black_time} : t \in Nat

\* C5: a time-out overlay is the first of its match (since the last reset),
\* names the seat opposite to the one at zero as winner, and leaves the
\* clock halted.
C5_OneTimeoutPerMatch ==
    [][(ClocksNonNegative /\ Emits(out', "overlay", "time")) =>
          /\ obs.timeouts = 0
          /\ ~_timer_running'
          /\ \A m \in out' : (m.ev = "overlay") =>
                /\ m.w = "b" => white_time' = 0
                /\ m.w = "w" => black_time' = 0]_vars

\* C6: while the match is terminal (until the next reset) no step changes
\* the position or a remaining time.
C6_TerminalFreezes ==
    [][(obs.terminal /\ obs'.terminal) =>
          /\ board' = board
          /\ white_time' = white_time
          /\ black_time' = black_time]_vars

\* C7: after a seat occupant's disconnect ended a running match, and with no
\* further client message, the clock is halted, ticks at most once more, and
\* the disconnect overlay stays the only termination overlay.
C7_DisconnectEndsMatch ==
    (obs.dc /\ ClocksNonNegative) => (~_timer_running /\ obs.dticks <= 1 /\ obs.dovl = 1)

\* C8: after a reset with base b, until the clock is next started or a move
\* is applied, the position is the starting position, both remaining times
\* are b*60 and the clock is halted.
C8_ResetHolds ==
    (obs.rbOn /\ obs.rb >= 0) =>
        /\ board = StartBoard
        /\ white_time = obs.rb * SecsPerMin
        /\ black_time = obs.rb * SecsPerMin
        /\ ~_timer_running

\* C9: a move message from a sender that is not the occupant of the side to
\* move, or with a move outside the legal moves of the position, ends with
\* an error to the sender, changes neither position, remaining times nor the
\* running flag and broadcasts no state; any other move message sets the
\* position to push(position, move).
C9_MoveArbitration ==
    [][\A sid \in Sids, mv \in MoveInputs :
          on_move(sid, mv) =>
              IF players[get_turn(board)] # sid \/ mv \notin legal_moves(board)
              THEN /\ UNCHANGED <<board, white_time, black_time, _timer_running>>
                   /\ h'[sid].pc = "idle"
                   /\ \A m \in out' : m.ev = "errorMsg" /\ m.to = sid
                   /\ out' # {}
              ELSE board' = push(board, mv)]_vars
\* a rejected move on a board on which a move had been accepted
C9_Witness ==
    /\ Emits(out, "errorMsg", "Illegal move")
    /\ board.ply > 0

\* C10: a forfeit of a spectator (answered 'Spectators cannot forfeit')
\* mutates nothing: the clock's running flag, the match and the seats stay.
C10_SpectatorForfeitNoEffect ==
    [][Emits(out', "errorMsg", "Spectators cannot forfeit") =>
          /\ _timer_running' = _timer_running
          /\ \A m \in out' : m.ev # "overlay"
          /\ UNCHANGED <<gameVars, seatVars, pending_start>>]_vars

\* C11: when a live connection identifies, with the clock halted and no
\* match started, with a playerId whose previous connection left a seat by
\* disconnecting, it is seated in that same seat.
C11_ReconnectRestoresSeat ==
    [][\A sid \in Sids :
          (/\ IdentifySeat(sid)
           /\ sid \in connected_sids
           /\ h[sid].halted /\ ~_timer_running /\ ~obs.started
           /\ h[sid].pid \in PlayerIds
           /\ obs.left[h[sid].pid] # None)
          => players'[obs.left[h[sid].pid]] = sid]_vars

\* the remaining time of side c
TimeOf(c) == IF c = "w" THEN white_time ELSE black_time
\* a clock thread holds a value of side c's clock it has yet to store
TickInFlight(c) == \E i \in LoopSlots : loops[i].pc = "store" /\ loops[i].turn = c

\* C12: once the handler of a move by side X has stored the increment and
\* no tick on X is in flight, X's remaining time is its value before the
\* move, plus the increment, minus one for each tick stored on X since.
C12_NoLostClockUpdate ==
    (obs.mvOn /\ obs.mvDone /\ ~TickInFlight(obs.mvc)) => TimeOf(obs.mvc) = obs.mvx

\* C13: a respondStart(accept=false) of a connection other than the
\* proposer, processed against a pending offer (answered 'rejected'),
\* destroys it: no offer is pending afterwards.
C13_RejectDestroysOffer ==
    [][(/\ pending_start.set
        /\ \E m \in out' : /\ m.ev = "startStatus" /\ m.v = "rejected"
                            /\ m.to # pending_start.from)
          => ~pending_start'.set]_vars

\* C14: when an accept seats the two parties, the proposer is in the seat it
\* held before (white if it held none), the accepter is in the other seat,
\* and the two are different connections.
C14_AcceptSeatsBoth ==
    [][\A sid \in Sids :
          RespondSeat(sid) =>
              LET proposer == h[sid].p
                  kept == IF SeatOf(proposer) # None THEN SeatOf(proposer) ELSE "w"
              IN /\ players'[kept] = proposer
                 /\ players'[Other(kept)] = sid
                 /\ proposer # sid]_vars

\* C15: the occupant of a seat, if there is one, is a live connection.
C15_OccupantsLive ==
    \A c \in Colors : players[c] # None => players[c] \in connected_sids

\* C16: while the clock is running, the seating done by an identify message
\* leaves the occupant of every occupied seat as it is.
C16_IdentifyKeepsOccupants ==
    [][\A sid \in Sids :
          (IdentifySeat(sid) /\ _timer_running) =>
              \A c \in Colors : players[c] # None => players'[c] = players[c]]_vars

\* C17: in the lobby (no start_timer since the last reset, no match ended)
\* the clock goes from halted to running only in the last step of an
\* accepted offer or in a legacy start with both seats occupied and no
\* offer pending.
C17_HandshakeGatesStart ==
    [][(~obs.started /\ ~obs.terminal /\ ~_timer_running /\ _timer_running') =>
          \/ \E sid \in Sids : RespondStartTimer(sid)
          \/ \E sid \in Sids :
                /\ on_start(sid)
                /\ players["w"] # None /\ players["b"] # None
                /\ ~pending_start.set]_vars

\* C18: with the clock threads scheduled fairly and no client message,
\* whenever the clock is running, eventually the position is game over or
\* the side to move has no time left; and eventually the clock is halted
\* and stays halted.
C18_ClockHalts ==
    /\ [](_timer_running =>
              <>(is_game_over(board) \/ TimeOf(get_turn(board)) = 0))
    /\ <>[](~_timer_running)
\* the clock has run the side to move down to zero, halted and its thread
\* has left the loop
C18_Witness ==
    /\ ~_timer_running
    /\ ticks > 0
    /\ TimeOf(get_turn(board)) = 0
    /\ \A i \in LoopSlots : loops[i].pc = "none"

\* a step of reset_game (setTimeControl, an accepted offer, hardReset)
ResetStep ==
    \E sid \in Sids :
        \/ \E tc \in TimeControls : on_set_time_control(sid, tc[1], tc[2])
        \/ RespondReset(sid)
        \/ on_hard_reset(sid)

\* C19: apart from resets, and once a move has been applied since the last
\* reset, a step that changes the remaining time of side c is either a tick
\* that decreases it while c is the side to move, or the store of a move of
\* c that increases it by exactly the increment.
C19_ClockChanges ==
    [][\A c \in Colors :
          (TimeOf(c)' # TimeOf(c) /\ ~ResetStep /\ obs.mvOn) =>
              \/ /\ \E i \in LoopSlots : LoopStore(i)
                 /\ TimeOf(c)' < TimeOf(c)
                 /\ get_turn(board) = c
              \/ /\ \E sid \in Sids : MoveStore(sid) /\ h[sid].turn = c
                 /\ TimeOf(c)' = TimeOf(c) + inc_per_move]_vars

\* C20: the white seat and the black seat are never occupied by the same
\* connection.
C20_SeatsDistinct == players["w"] # None => players["w"] # players["b"]

====
